---- MODULE Spec2Model ----
(***************************************************************************)
(* Model of src/Automated_Processor.py: one run of the Streamlit script,   *)
(* i.e. the upload guard, process_file (validate, sort, concatenate,       *)
(* translate with the module-level cache, finalize) and the caller's       *)
(* two-value unpacking with preview/download.                              *)
(*                                                                         *)
(* Strings of the brand columns are sequences of one-character strings so  *)
(* that the join and the regular-expression replacement of line 46 are     *)
(* computed character by character.  Description texts and translations    *)
(* are atomic strings.  A cell is [na, s]: na is pandas' missing value.    *)
(***************************************************************************)
EXTENDS Integers, Sequences, FiniteSets, TLC

\* ---------------------------------------------------------------- bounds
MaxRows == 3
LongBlocks == 2

\* ------------------------------------------------------ program constants
BatchSize == 100
PctCreated == 0
PctSorted == 10
PctConcatenated == 30
BandLow == 30
BandWidth == 50
PctTranslated == 80
PctComplete == 100

required_columns == <<"RCT", "BRAND_OWNER", "BRAND_1", "BRAND_EXTENSION", "PRODUCT_DESCRIPTION">>

TranslationError == "Translation Error"

\* ------------------------------------------------------------ input data
Range(s) == {s[k] : k \in 1..Len(s)}

NaN == [na |-> TRUE, s |-> <<>>]
Str(s) == [na |-> FALSE, s |-> s]
NoText == [na |-> TRUE, s |-> ""]
Text(t) == [na |-> FALSE, s |-> t]

Texts == {"x", "y"}
RCTValues == {1, 2}

MkRow(rct, bo, b1, be, pd) ==
    [idx |-> 0, RCT |-> rct, BRAND_OWNER |-> bo, BRAND_1 |-> b1,
     BRAND_EXTENSION |-> be, PRODUCT_DESCRIPTION |-> pd]

\* read_excel gives the frame a RangeIndex 0..n-1 (line 29)
Tables(rows, n) ==
    {[k \in 1..n |-> [f[k] EXCEPT !.idx = k - 1]] : f \in [1..n -> rows]}

File(cols, rows) == [present |-> TRUE, columns |-> cols, rows |-> rows]
NoFile == [present |-> FALSE, columns |-> {}, rows |-> <<>>]

\* tables that vary the sort key and the description
MainRows ==
    {MkRow(r, Str(<<"A">>), NaN, Str(<<"B">>), d) :
        r \in RCTValues, d \in {NoText} \cup {Text(t) : t \in Texts}}
MainFiles ==
    {File(Range(required_columns), t) :
        t \in UNION {Tables(MainRows, n) : n \in 0..MaxRows}}

\* an unsorted two-row table under every subset of the required columns
SchemaTable ==
    <<[MkRow(2, Str(<<"A">>), NaN, NaN, Text("x")) EXCEPT !.idx = 0],
      [MkRow(1, NaN, Str(<<"B">>), NaN, Text("y")) EXCEPT !.idx = 1]>>
SchemaFiles == {File(c, SchemaTable) : c \in SUBSET Range(required_columns)}

\* one-row tables that vary the three brand cells
BrandRows ==
    {MkRow(1, bo, b1, be, NoText) :
        bo \in {NaN, Str(<<>>), Str(<<"A">>)},
        b1 \in {NaN, Str(<<>>), Str(<<"B">>), Str(<<"X">>)},
        be \in {NaN, Str(<<>>), Str(<<"B">>), Str(<<"C">>)}}
BrandFiles == {File(Range(required_columns), t) : t \in Tables(BrandRows, 1)}

\* long tables: 100*b and 100*b+1 rows, keys ascending or descending,
\* descriptions all missing or only the first row described
LongLengths == UNION {{BatchSize * b, BatchSize * b + 1} : b \in 1..LongBlocks}
LongTable(n, asc, first) ==
    [k \in 1..n |->
        [idx |-> k - 1, RCT |-> IF asc THEN k ELSE n + 1 - k,
         BRAND_OWNER |-> Str(<<"A">>), BRAND_1 |-> NaN, BRAND_EXTENSION |-> NaN,
         PRODUCT_DESCRIPTION |-> IF k = 1 THEN first ELSE NoText]]
LongFiles ==
    {File(Range(required_columns), LongTable(n, asc, first)) :
        n \in LongLengths, asc \in BOOLEAN, first \in {NoText, Text("x")}}

Files == MainFiles \cup SchemaFiles \cup BrandFiles \cup LongFiles

\* ----------------------------------------------------------------- state
VARIABLES entry, uploaded_file, pc, df, df_columns, st_error, Concatenated,
          translation_cache, translated_list, Translated_Description,
          total_rows, i, sink, remote_calls, ret, preview, raised_at

vars == <<entry, uploaded_file, pc, df, df_columns, st_error, Concatenated,
          translation_cache, translated_list, Translated_Description,
          total_rows, i, sink, remote_calls, ret, preview, raised_at>>

\* ------------------------------------------------------- pure operations
MissingCols_FirstOnly(cols) ==
    LET m == SelectSeq(required_columns, LAMBDA c : c \notin cols)
    IN  IF m = <<>> THEN m ELSE <<m[1]>>

\* line 32: the required columns absent from the frame, in required order
MissingCols(cols) == SelectSeq(required_columns, LAMBDA c : c \notin cols)

\* line 41: sort_values(by="RCT", ascending=True) with the default
\* kind="quicksort", which pandas documents as not stable: rows come out in
\* non-decreasing key order, and rows of equal key in any order (numpy's
\* introsort keeps ties only on very short arrays; the model takes the
\* documented contract at every length).
\* the frame in key order with rows of equal key in their input order
StableByRCT(d) == SortSeq(d, LAMBDA a, b : a.RCT < b.RCT)
\* positions of a key-ordered frame whose key a neighbour shares
Tied(s) ==
    {j \in 1..Len(s) : \/ j > 1 /\ s[j - 1].RCT = s[j].RCT
                       \/ j < Len(s) /\ s[j + 1].RCT = s[j].RCT}
\* the rearrangements of the tied positions that keep every key in place
TieOrders(s) ==
    {p \in [Tied(s) -> Tied(s)] :
        /\ \A a, b \in Tied(s) : p[a] = p[b] => a = b
        /\ \A a \in Tied(s) : s[p[a]].RCT = s[a].RCT}
SortValues_KeepOrder(d) == {d}

SortValues(d) ==
    LET s == StableByRCT(d)
    IN  {[a \in 1..Len(s) |-> IF a \in DOMAIN p THEN s[p[a]] ELSE s[a]] : p \in TieOrders(s)}

\* line 46: fillna("")
FillNa(c) == IF c.na THEN <<>> ELSE c.s
\* line 46: agg(";".join, axis=1)
JoinSemi(a, b, c) == a \o <<";">> \o b \o <<";">> \o c
\* line 46: str.replace(r";+", ";", regex=True)
RECURSIVE CollapseSemis(_)
CollapseSemis(s) ==
    IF Len(s) < 2 THEN s
    ELSE IF s[1] = ";" /\ s[2] = ";" THEN CollapseSemis(Tail(s))
    ELSE <<s[1]>> \o CollapseSemis(Tail(s))
ConcatRow(r) ==
    CollapseSemis(JoinSemi(FillNa(r.BRAND_OWNER), FillNa(r.BRAND_1), FillNa(r.BRAND_EXTENSION)))

\* line 19: the remote backend's answer when it answers
Backend(t) == "en:" \o t

CacheStore_NoStore(cache, t, v) == cache

\* line 20: translation_cache[text] = translated
CacheStore(cache, t, v) == [x \in DOMAIN cache \cup {t} |-> IF x = t THEN v ELSE cache[x]]

\* lines 13-24: translate_text; ok is whether the backend call succeeds
TranslateText(text, cache, ok) ==
    IF ~text.na
    THEN IF text.s \in DOMAIN cache
         THEN [result |-> cache[text.s], cache |-> cache, called |-> FALSE]
         ELSE IF ok
              THEN [result |-> Backend(text.s),
                    cache |-> CacheStore(cache, text.s, Backend(text.s)), called |-> TRUE]
              ELSE [result |-> TranslationError, cache |-> cache, called |-> TRUE]
    ELSE [result |-> "", cache |-> cache, called |-> FALSE]

\* line 61: 30 + int((i / total_rows) * 50).  The float expression equals
\* the integer floor for every total_rows below 5000 (it first differs, by
\* one, at i = 2900, total_rows = 5000).
ProgressPercent(idx, total) == BandLow + ((idx * BandWidth) \div total)

\* line 60: the rows after which the scan reports progress
ReportsAt(idx) == idx % BatchSize = 0

\* ------------------------------------------------------------------ sink
\* one call of progress_bar.progress(v) or status_placeholder.text(...)
Progress(line, v) == [line |-> line, kind |-> "progress", pct |-> v, rows |-> 0, of |-> 0]
StatusText(line) == [line |-> line, kind |-> "text", pct |-> 0, rows |-> 0, of |-> 0]
\* line 63: f"Translating... {i}/{total_rows} rows processed"
RowsStatus(idx, total) == [line |-> 63, kind |-> "text", pct |-> 0, rows |-> idx, of |-> total]

\* The sink calls of one step, in order; fail = 0 when all succeed, else the
\* position of the call that raises (nothing in process_file catches it).
Delivered(calls, fail) == IF fail = 0 THEN calls ELSE SubSeq(calls, 1, fail - 1)
Emit(calls, fail, next) ==
    /\ sink' = sink \o Delivered(calls, fail)
    /\ pc' = IF fail = 0 THEN next ELSE "raised"
    /\ raised_at' = IF fail = 0 THEN 0 ELSE calls[fail].line

\* ------------------------------------------------------------------ init
NoCalls == [t \in Texts |-> [n |-> 0, ok |-> 0]]
EmptyCache == [t \in {} |-> ""]

Init ==
    /\ \/ entry = "ui" /\ uploaded_file \in Files \cup {NoFile}
       \/ entry = "direct" /\ uploaded_file = NoFile
    /\ pc = IF entry = "ui" THEN "ui" ELSE "call"
    /\ df = <<>>
    /\ df_columns = {}
    /\ st_error = <<>>
    /\ Concatenated = <<>>
    /\ translation_cache = EmptyCache
    /\ translated_list = <<>>
    /\ Translated_Description = <<>>
    /\ total_rows = 0
    /\ i = 0
    /\ sink = <<>>
    /\ remote_calls = NoCalls
    /\ ret = [arity |-> 0, hasDf |-> FALSE, hasTime |-> FALSE]
    /\ preview = FALSE
    /\ raised_at = 0

\* --------------------------------------------------------------- actions
\* lines 123-129: the upload guard and the creation of the progress bar
UIUpload ==
    /\ pc = "ui"
    /\ IF uploaded_file.present
       THEN /\ sink' = Append(sink, Progress(129, PctCreated))
            /\ pc' = "call"
       ELSE /\ pc' = "done"
            /\ UNCHANGED sink
    /\ UNCHANGED <<entry, uploaded_file, df, df_columns, st_error, Concatenated,
                   translation_cache, translated_list, Translated_Description,
                   total_rows, i, remote_calls, ret, preview, raised_at>>

\* lines 28, 77: process_file called without a file
ProcessNoFile ==
    /\ pc = "call"
    /\ ~uploaded_file.present
    /\ ret' = [arity |-> 2, hasDf |-> FALSE, hasTime |-> FALSE]
    /\ pc' = "returned"
    /\ UNCHANGED <<entry, uploaded_file, df, df_columns, st_error, Concatenated,
                   translation_cache, translated_list, Translated_Description,
                   total_rows, i, sink, remote_calls, preview, raised_at>>

\* lines 29-38: read the file and check the required columns
Validate ==
    /\ pc = "call"
    /\ uploaded_file.present
    /\ df' = uploaded_file.rows
    /\ df_columns' = uploaded_file.columns
    /\ LET missing_cols == MissingCols(uploaded_file.columns)
       IN  IF missing_cols # <<>>
           THEN /\ st_error' = missing_cols
                /\ ret' = [arity |-> 1, hasDf |-> FALSE, hasTime |-> FALSE]
                /\ pc' = "returned"
           ELSE /\ pc' = "sort"
                /\ UNCHANGED <<st_error, ret>>
    /\ UNCHANGED <<entry, uploaded_file, Concatenated, translation_cache,
                   translated_list, Translated_Description, total_rows, i, sink,
                   remote_calls, preview, raised_at>>

\* lines 41-43
Sort ==
    /\ pc = "sort"
    /\ df' \in SortValues(df)
    /\ \E fail \in 0..2 :
          Emit(<<Progress(42, PctSorted), StatusText(43)>>, fail, "concat")
    /\ UNCHANGED <<entry, uploaded_file, df_columns, st_error, Concatenated,
                   translation_cache, translated_list, Translated_Description,
                   total_rows, i, remote_calls, ret, preview>>

\* lines 46-55.  On a frame with no rows DataFrame.agg(..., axis=1) takes
\* pandas' empty-result path and does not return a Series of strings (it
\* returns a copy of the empty frame, or in older releases an empty float64
\* Series), so the .str accessor raises AttributeError at line 46.
Concatenate ==
    /\ pc = "concat"
    /\ IF Len(df) = 0
       THEN /\ pc' = "raised"
            /\ raised_at' = 46
            /\ UNCHANGED <<Concatenated, df_columns, total_rows, translated_list, i, sink>>
       ELSE /\ Concatenated' = [k \in 1..Len(df) |-> ConcatRow(df[k])]
            /\ df_columns' = df_columns \cup {"Concatenated"}
            /\ total_rows' = Len(df)
            /\ translated_list' = <<>>
            /\ i' = 0
            /\ \E fail \in 0..3 :
                  Emit(<<Progress(47, PctConcatenated), StatusText(48), StatusText(51)>>,
                       fail, "scan")
    /\ UNCHANGED <<entry, uploaded_file, df, st_error, translation_cache,
                   Translated_Description, remote_calls, ret, preview>>

\* lines 56-63: one iteration of the translation loop
ScanRow ==
    /\ pc = "scan"
    /\ i < total_rows
    /\ \E ok \in BOOLEAN :
          LET desc == df[i + 1].PRODUCT_DESCRIPTION
              r == TranslateText(desc, translation_cache, ok)
          IN  /\ translated_list' = Append(translated_list, r.result)
              /\ translation_cache' = r.cache
              /\ remote_calls' =
                    IF r.called
                    THEN [remote_calls EXCEPT
                             ![desc.s] = [n |-> @.n + 1,
                                          ok |-> @.ok + (IF ok THEN 1 ELSE 0)]]
                    ELSE remote_calls
    /\ IF ReportsAt(i)
       THEN \E fail \in 0..2 :
               Emit(<<Progress(62, ProgressPercent(i, total_rows)),
                      RowsStatus(i, total_rows)>>, fail, "scan")
       ELSE UNCHANGED <<sink, pc, raised_at>>
    /\ i' = i + 1
    /\ UNCHANGED <<entry, uploaded_file, df, df_columns, st_error, Concatenated,
                   Translated_Description, total_rows, ret, preview>>

\* lines 65-76: after the loop
Finalize ==
    /\ pc = "scan"
    /\ i = total_rows
    /\ Translated_Description' = translated_list
    /\ df_columns' = df_columns \cup {"Translated_Description"}
    /\ \E fail \in 0..4 :
          /\ Emit(<<Progress(67, PctTranslated), StatusText(68),
                    Progress(73, PctComplete), StatusText(74)>>, fail, "returned")
          /\ ret' = IF fail = 0 THEN [arity |-> 2, hasDf |-> TRUE, hasTime |-> TRUE] ELSE ret
    /\ UNCHANGED <<entry, uploaded_file, df, st_error, Concatenated,
                   translation_cache, translated_list, total_rows, i,
                   remote_calls, preview>>

\* lines 132-145: processed_df, total_time = process_file(...), then the
\* preview and the download button when a table came back
UIUnpack ==
    /\ pc = "returned"
    /\ IF ret.arity = 2
       THEN /\ pc' = "done"
            /\ preview' = ret.hasDf
            /\ UNCHANGED raised_at
       ELSE /\ pc' = "raised"
            /\ raised_at' = 132
            /\ UNCHANGED preview
    /\ UNCHANGED <<entry, uploaded_file, df, df_columns, st_error, Concatenated,
                   translation_cache, translated_list, Translated_Description,
                   total_rows, i, sink, remote_calls, ret>>

Next ==
    \/ UIUpload
    \/ ProcessNoFile
    \/ Validate
    \/ Sort
    \/ Concatenate
    \/ ScanRow
    \/ Finalize
    \/ UIUnpack

Spec == Init /\ [][Next]_vars

\* ---------------------------------------------------------------- claims
Valid == uploaded_file.present /\ Range(required_columns) \subseteq uploaded_file.columns
Missing == Range(required_columns) \ uploaded_file.columns
Percents == SelectSeq(sink, LAMBDA e : e.kind = "progress")
ScanEvents == SelectSeq(sink, LAMBDA e : e.line \in {62, 63})
SinkRaised == pc = "raised" /\ raised_at \notin {46, 132}
Last(s) == s[Len(s)]
Processed(t) ==
    {k \in 1..Len(translated_list) : df[k].PRODUCT_DESCRIPTION = Text(t)}
Fails(t) == {k \in Processed(t) : translated_list[k] = TranslationError}

C2_SchemaErrorListsAllMissing ==
    (uploaded_file.present /\ Missing # {} /\ pc \notin {"ui", "call"}) =>
        /\ pc \in {"returned", "raised", "done"}
        /\ Range(st_error) = Missing
        /\ Len(st_error) = Cardinality(Missing)
        /\ df = uploaded_file.rows
        /\ df_columns = uploaded_file.columns
        /\ Concatenated = <<>>
        /\ translated_list = <<>>
        /\ Translated_Description = <<>>
        /\ translation_cache = EmptyCache
        /\ remote_calls = NoCalls
        /\ \A k \in 1..Len(sink) : sink[k].line = 129
        /\ ~ret.hasDf

C2_Witness ==
    /\ pc = "returned"
    /\ Cardinality(Missing) >= 2
    /\ Len(st_error) >= 2
    /\ Len(uploaded_file.rows) = 2

\* the values a row's join is claimed to hold: its non-null, non-empty brands
RECURSIVE JoinWithSemi(_)
JoinWithSemi(vs) ==
    IF Len(vs) = 0 THEN <<>>
    ELSE IF Len(vs) = 1 THEN vs[1]
    ELSE vs[1] \o <<";">> \o JoinWithSemi(Tail(vs))
NonEmptyBrands(r) ==
    SelectSeq(<<r.BRAND_OWNER, r.BRAND_1, r.BRAND_EXTENSION>>,
              LAMBDA c : ~c.na /\ c.s # <<>>)

\* C3: the Concatenated value of every row is the non-null, non-empty brand
\* values, in column order, joined by single ';' with no leading or trailing
\* separator.
C3_ConcatenatedJoinsNonEmpty ==
    \A k \in 1..Len(Concatenated) :
        Concatenated[k] =
            JoinWithSemi([j \in 1..Len(NonEmptyBrands(df[k])) |-> NonEmptyBrands(df[k])[j].s])

\* C4 (amended): the returned table is a permutation of the input rows in
\* non-decreasing RCT order; the relative order of rows of equal RCT is not
\* fixed.
C4_SortedPermutation ==
    (pc = "concat" \/ ret.hasDf) =>
        /\ Len(df) = Len(uploaded_file.rows)
        /\ Range(df) = Range(uploaded_file.rows)
        /\ \A a \in 1..(Len(df) - 1) : df[a].RCT <= df[a + 1].RCT

\* C4 (as stated): and rows of equal RCT keep their input order.
C4_SortedStable ==
    /\ C4_SortedPermutation
    /\ ret.hasDf =>
          \A a \in 1..(Len(df) - 1) :
              df[a].RCT = df[a + 1].RCT => df[a].idx < df[a + 1].idx

C4_Witness ==
    /\ ret.hasDf
    /\ Len(df) = 3
    /\ df # uploaded_file.rows
    /\ df[1].RCT = df[2].RCT
    /\ df[2].RCT < df[3].RCT

\* the translated column has one entry per row, aligned with the sorted rows:
\* "" for a missing description (no lookup, write or call), else the sentinel
\* or the translation of that row's text
C5_ColumnAligned ==
    ret.hasDf =>
        /\ Len(Translated_Description) = Len(uploaded_file.rows)
        /\ Len(Translated_Description) = Len(df)
        /\ \A k \in 1..Len(df) :
              IF df[k].PRODUCT_DESCRIPTION.na
              THEN Translated_Description[k] = ""
              ELSE Translated_Description[k] \in
                      {TranslationError, "en:" \o df[k].PRODUCT_DESCRIPTION.s}
        /\ \A t \in Texts :
              Processed(t) = {} => (remote_calls[t].n = 0 /\ t \notin DOMAIN translation_cache)
\* a run on a valid table is not aborted, whatever the backend does
C5_RunCompletes == (Valid /\ pc = "raised") => SinkRaised

\* C5: for every valid table, with any descriptions missing and any backend
\* calls failing, the run completes and Translated_Description has exactly one
\* entry per input row, aligned with the sorted rows.
C5_TranslatedColumn == C5_ColumnAligned /\ C5_RunCompletes

\* C6: a failing call of the progress sink inside the scan does not abort
\* the run.
C6_SinkFailureAbsorbed == pc = "raised" => raised_at \notin {62, 63}

\* the percentages are non-decreasing and within 0..100, and the scan's values
\* are within 30..80, after the 30 of line 47 and before the 80 of line 67
C7_Monotone ==
    /\ \A a, b \in 1..Len(Percents) : a < b => Percents[a].pct <= Percents[b].pct
    /\ \A a \in 1..Len(Percents) : Percents[a].pct \in 0..100
    /\ \A a \in 1..Len(Percents) :
          Percents[a].line = 62 =>
             /\ Percents[a].pct \in 30..80
             /\ \E b \in 1..(a - 1) : Percents[b].line = 47 /\ Percents[b].pct = 30
             /\ \A b \in 1..Len(Percents) : Percents[b].line = 67 => a < b
    /\ ret.hasDf => Last(Percents).pct = 100
\* a run on a valid table, with a working sink, ends with 100 as the last value
C7_EndsWithHundred ==
    (Valid /\ pc \in {"done", "raised"} /\ ~SinkRaised) =>
        (Percents # <<>> /\ Last(Percents).pct = 100)

\* C7: over a whole run, for every row count, the percentages passed to the
\* sink are non-decreasing and within 0..100, the scan's values are within
\* 30..80, and the last value emitted is 100.
C7_ProgressSequence == C7_Monotone /\ C7_EndsWithHundred

\* C8: a valid table with no rows emits nothing from the scan, calls nothing,
\* and the run reaches Done with an empty table carrying both new columns.
C8_EmptyTableCompletes ==
    (Valid /\ Len(uploaded_file.rows) = 0) =>
        /\ ScanEvents = <<>>
        /\ remote_calls = NoCalls
        /\ translated_list = <<>>
        /\ pc = "raised" => SinkRaised
        /\ pc = "done" =>
              /\ ret.hasDf
              /\ df = <<>>
              /\ df_columns = uploaded_file.columns \cup {"Concatenated", "Translated_Description"}

\* C9: the scan reports after row i exactly when i is a multiple of 100, and
\* the rows-processed figure it reports is the number of completed lookups.
C9_ReportsCompletedRows ==
    (pc = "scan" /\ i > 0) =>
        /\ \A k \in 0..(i - 1) :
              (k % 100 = 0) <=>
                  \E e \in 1..Len(sink) : sink[e].line = 63 /\ sink[e].rows = k
        /\ ((i - 1) % 100 = 0) =>
              /\ Last(sink).line = 63
              /\ Last(sink).of = total_rows
              /\ Last(sink).rows = Len(translated_list)

\* C10: every return path hands the caller two values, so the unpacking at
\* line 132 never fails; a missing-column run ends cleanly with no table, no
\* preview and no download.
C10_TwoValueReturn ==
    /\ pc = "returned" => ret.arity = 2
    /\ raised_at # 132
    /\ (uploaded_file.present /\ Missing # {} /\ pc \in {"done", "raised"}) =>
          (pc = "done" /\ ~ret.hasDf /\ ~preview)

====
